---------------------------- MODULE Spec2Model ----------------------------
(***************************************************************************)
(* Model of twitter-reply-bot.py: the mention processing pipeline of       *)
(* TwitterBot (get_mentions, get_mention_conversation_tweet,               *)
(* check_already_responded, respond_to_mention, respond_to_mentions) with  *)
(* its external collaborators: the mention source (Twitter), the cursor    *)
(* store (Redis key last_tweet_id), the dedup ledger (Airtable), the chat, *)
(* rendering and summarization services.                                   *)
(*                                                                         *)
(* One run of job() is cut into steps at its external calls; pc is the     *)
(* position of the run.  Every external call either answers or fails; the  *)
(* number of non-nominal answers in one behaviour is bounded by MaxFaults. *)
(***************************************************************************)
EXTENDS Naturals, Sequences, FiniteSets, TLC

VARIABLES
    \* ---- the external world
    source,          \* ids of the mentions of the bot that exist at Twitter
    cursor,          \* Redis value of "last_tweet_id": a digit string, "" = no key
    ledger,          \* Airtable table: sequence of inserted records
    tweets,          \* replies created at Twitter, in order of creation
    uploads,         \* number of media uploads accepted by Twitter
    served,          \* ids the current paginated query has already returned
    \* ---- TwitterBot fields
    mentions_found,
    mentions_replied,
    mentions_replied_errors,
    \* ---- locals of the run in progress
    pc,              \* position of the run
    since_id,        \* get_mentions: since_id
    pagination_token, \* get_mentions: pagination_token ("" = None)
    mentions,        \* get_mentions / respond_to_mentions: mentions
    idx,             \* 1-based position of the for loop in mentions[:limit]
    target,          \* mentioned_conversation_tweet.id, 0 = not resolved yet
    response_text,   \* respond_to_mention: response_text
    image_url,       \* respond_to_mention: image_url ("" = None)
    summary,         \* respond_to_mention: summary ("" = None or empty)
    tweet_text,      \* respond_to_mention: tweet_text
    media_id,        \* respond_to_mention: media_id (0 = None)
    \* ---- history of the execution (not program state)
    faults,          \* non-nominal external answers so far
    hist             \* observations about the run in progress, see HistInit

vars == <<source, cursor, ledger, tweets, uploads, served,
          mentions_found, mentions_replied, mentions_replied_errors,
          pc, since_id, pagination_token, mentions, idx, target, response_text,
          image_url, summary, tweet_text, media_id, faults, hist>>

world  == <<source, cursor, ledger, tweets, uploads>>
stats  == <<mentions_found, mentions_replied, mentions_replied_errors>>
locals == <<target, response_text, image_url, summary, tweet_text, media_id>>

-----------------------------------------------------------------------------
(* Bounds of the model *)

MaxFaults == 1      \* non-nominal external answers per behaviour
MaxPage == 2        \* largest page the source returns when pages are arbitrary
MaxShuffle == 3     \* arbitrary page composition is explored up to this many pending mentions
MaxExtra == 2       \* the large source holds up to tweet_response_limit + MaxExtra mentions
MaxSummaryLen == 300 \* summaries of 0..MaxSummaryLen characters are composed

(* Program constants *)

tweet_response_limit == 35
max_results == 100
TwitterLimit == 280
TruncateAt == 265

-----------------------------------------------------------------------------
(* Text: strings, as Python str *)

Digits == "0123456789"
Digit(d) == SubSeq(Digits, d + 1, d + 1)

\* str(n) for a natural number n
RECURSIVE ToStr(_)
ToStr(n) == IF n < 10 THEN Digit(n) ELSE ToStr(n \div 10) \o Digit(n % 10)

DigitValue(c) == CHOOSE d \in 0..9 : Digit(d) = c

\* int(s) for a digit string s
RECURSIVE ToInt(_)
ToInt(s) ==
    IF Len(s) = 0 THEN 0
    ELSE 10 * ToInt(SubSeq(s, 1, Len(s) - 1)) + DigitValue(SubSeq(s, Len(s), Len(s)))

Apology == "I'm sorry, I couldn't process your request at this time."
Suffix == "\n\nMore at ftxclaims.com"
SuffixAlone == "More at ftxclaims.com"
Ellipsis == "..."

\* s[:n]
Prefix(s, n) == IF Len(s) <= n THEN s ELSE SubSeq(s, 1, n)

\* The text cut at the limit less the length of the ellipsis.
ComposeTweetText_limit(s) ==
    IF s # ""
    THEN LET t == s \o Suffix
         IN  IF Len(t) > TwitterLimit THEN Prefix(t, TwitterLimit - Len(Ellipsis)) \o Ellipsis ELSE t
    ELSE SuffixAlone

\* lines 187-192: the visible text made of the summary ("" = None or empty)
ComposeTweetText(s) ==
    IF s # ""
    THEN LET t == s \o Suffix
         IN  IF Len(t) > TwitterLimit THEN Prefix(t, TruncateAt) \o Ellipsis ELSE t
    ELSE SuffixAlone

-----------------------------------------------------------------------------
(* The tweets that exist at Twitter.  A mention is identified by its id;   *)
(* its other fields are functions of the id.                               *)

\* Mentions that may arrive while the bot runs.
SmallMentions == {3, 5, 7, 9, 10, 12}

SetMax(S) == CHOOSE x \in S : \A y \in S : y <= x

\* A backlog of n mentions, each the root of its own conversation.
LargeMentions(n) == {SetMax(SmallMentions) + i : i \in 1..n}

\* mention.conversation_id (0 = the field is missing)
ConversationId(m) ==
    CASE m \in {5, 9} -> 2      \* two replies in the conversation of tweet 2
      [] m = 7        -> 4      \* a reply in the conversation of tweet 4
      [] m = 10       -> 1      \* a reply in the conversation of tweet 1
      [] m = 12       -> 0
      [] OTHER        -> m      \* the mention is the conversation root

twitter_me_id == "me"

\* twitter_api.get_tweet(id).data: the author of the tweet, "" = data is None
\* (the tweet was deleted or is not visible).
GetTweetData(t) ==
    CASE t = 1 -> twitter_me_id
      [] t = 4 -> ""
      [] OTHER -> "other"

\* The id Twitter gives the k-th reply the bot creates.
ReplyId(k) == 1000 + k

-----------------------------------------------------------------------------
(* Python helpers *)

\* mentions[:n]
Take(s, n) == IF Len(s) <= n THEN s ELSE SubSeq(s, 1, n)

Range(s) == {s[i] : i \in 1..Len(s)}

\* The element put in front, whatever its id.
InsertSorted_front(s, x) == <<x>> \o s

\* list.sort(key=lambda x: x.id): insertion of x into a sorted list
RECURSIVE InsertSorted(_, _)
InsertSorted(s, x) ==
    IF Len(s) = 0 THEN <<x>>
    ELSE IF x < s[1] THEN <<x>> \o s
    ELSE <<s[1]>> \o InsertSorted(Tail(s), x)

RECURSIVE SortByIdFrom(_, _)
SortByIdFrom(done, rest) ==
    IF Len(rest) = 0 THEN done
    ELSE SortByIdFrom(InsertSorted(done, rest[1]), Tail(rest))

\* The list left in the order the source returned it.
SortById_unsorted(s) == s

\* line 323
SortById(s) == SortByIdFrom(<<>>, s)

IsSorted(s) == \A i \in 1..Len(s), j \in 1..Len(s) : i < j => s[i] < s[j]

\* The stored cursor is not used.
SinceId_ignored(last_tweet_id) == 1

\* lines 267-272: the lower bound of the fetch, from the Redis value
SinceId(last_tweet_id) == IF last_tweet_id # "" THEN ToInt(last_tweet_id) ELSE 1

\* The slice forgotten: every fetched mention is processed.
Batch_uncapped(ms) == ms

\* line 325: mentions[:self.tweet_response_limit]
Batch(ms) == Take(ms, tweet_response_limit)

\* The id looked up in the wrong column of the table.
check_already_responded_column(records, id) ==
    \E i \in 1..Len(records) : records[i].tweet_response_id = ToStr(id)

\* Only the first record is looked at (return False inside the loop).
check_already_responded_first(records, id) ==
    /\ Len(records) > 0
    /\ records[1].mentioned_conversation_tweet_id = ToStr(id)

\* lines 305-310
check_already_responded(records, id) ==
    \E i \in 1..Len(records) : records[i].mentioned_conversation_tweet_id = ToStr(id)

\* The root of the conversation is the target whoever wrote it.
get_mention_conversation_tweet_root(m, author) ==
    IF ConversationId(m) # 0 THEN ConversationId(m) ELSE 0

\* lines 247-264 for a mention whose root, if it has to be fetched, has author
\* `author`: the id of the tweet to respond to, 0 = None
get_mention_conversation_tweet(m, author) ==
    IF ConversationId(m) = m THEN m
    ELSE IF ConversationId(m) # 0
         THEN IF author # twitter_me_id THEN ConversationId(m) ELSE m
         ELSE 0

-----------------------------------------------------------------------------
(* The mention source: get_users_mentions(since_id, pagination_token)      *)

\* The bound of the query taken as inclusive.
Pending_inclusive == {m \in source : m >= since_id} \ served

\* The mentions the query still has to return.
Pending == {m \in source : m > since_id} \ served

Perms(S) == {f \in [1..Cardinality(S) -> S] : \A i, j \in 1..Cardinality(S) : f[i] = f[j] => i = j}

RECURSIVE Descending(_)
Descending(S) == IF S = {} THEN <<>> ELSE <<SetMax(S)>> \o Descending(S \ {SetMax(S)})

\* The pages the source may answer with.  Twitter documents newest first, at
\* most max_results a page; the bot relies on neither, so for a short pending
\* list a page is any ordering of any part of it.
Pages(avail) ==
    IF avail = {} THEN {<<>>}
    ELSE IF Cardinality(avail) <= MaxShuffle
    THEN UNION {Perms(S) : S \in {T \in SUBSET avail : T # {} /\ Cardinality(T) <= MaxPage}}
    ELSE {Take(Descending(avail), max_results)}

-----------------------------------------------------------------------------
(* Initial states *)

NoLocals ==
    /\ target = 0
    /\ response_text = ""
    /\ image_url = ""
    /\ summary = ""
    /\ tweet_text = ""
    /\ media_id = 0

\* History of the current run; reset when a run starts.
HistRun ==
    [start        |-> [cursor |-> cursor, tweets |-> Len(tweets),
                       ledger |-> Len(ledger), uploads |-> uploads],
     fetch_failed |-> FALSE,   \* a page of this run's fetch failed
     unsorted     |-> FALSE,   \* the source returned the mentions out of id order
     examined     |-> {},      \* mentions whose loop iteration began in this run
     already      |-> FALSE,   \* the current mention's target was in the ledger when checked
     chat_failed  |-> FALSE,   \* the chat call failed for the current mention
     attempted    |-> FALSE,   \* publish (upload or create_tweet) was called for the current mention
     raised       |-> "",      \* the step of the current mention that raised
     crash_stage  |-> ""]      \* the step whose exception left respond_to_mentions

\* History across runs.
HistAll ==
    [ran_once   |-> FALSE,     \* a run has started before
     new_since  |-> FALSE,     \* a mention arrived since the last run started
     second     |-> FALSE,     \* the run started after another with no arrival in between
     unresolved |-> {},        \* mentions for which the resolver gave no target, in any run
     before     |-> {}]        \* mentions examined by the runs before the current one

\* lines 141-161 (TwitterBot.__init__), with an empty ledger and no cursor.
\* Either no mention exists yet, or a backlog of at least tweet_response_limit
\* mentions waits (then every external call answers nominally).
Init ==
    /\ \/ source = {} /\ faults = 0
       \/ \E n \in tweet_response_limit..(tweet_response_limit + MaxExtra) :
              source = LargeMentions(n) /\ faults = MaxFaults
    /\ cursor = ""
    /\ ledger = <<>>
    /\ tweets = <<>>
    /\ uploads = 0
    /\ served = {}
    /\ mentions_found = 0
    /\ mentions_replied = 0
    /\ mentions_replied_errors = 0
    /\ pc = "idle"
    /\ since_id = 0
    /\ pagination_token = ""
    /\ mentions = <<>>
    /\ idx = 0
    /\ NoLocals
    /\ hist = [HistRun EXCEPT !.start = [cursor |-> "", tweets |-> 0, ledger |-> 0, uploads |-> 0]]
             @@ HistAll

CanFail == faults < MaxFaults

\* The ledger holds a record whose target is tweet t.
Recorded(t) ==
    \E i \in 1..Len(ledger) : ledger[i].mentioned_conversation_tweet_id = ToStr(t)

\* The cursor as a number, 0 when the key is not set.
CursorInt == IF cursor = "" THEN 0 ELSE ToInt(cursor)

\* The run is inside respond_to_mention.
Responding == pc \in {"generate", "render", "summarize", "upload", "create", "insert"}

-----------------------------------------------------------------------------
(* The environment *)

\* A new mention of the bot is posted; ids grow with time.  A paginated query
\* returns the mentions that existed when it began, so a mention posted during
\* a run is seen by the next run exactly as one posted right after the run.
Arrive ==
    /\ pc = "idle"
    /\ source \subseteq SmallMentions
    /\ \E m \in SmallMentions :
          /\ \A o \in source : o < m
          /\ source' = source \cup {m}
    /\ hist' = [hist EXCEPT !.new_since = TRUE]
    /\ UNCHANGED <<cursor, ledger, tweets, uploads, served, stats, pc, since_id,
                   pagination_token,
                   mentions, idx, locals, faults>>

-----------------------------------------------------------------------------
(* get_mentions, lines 266-303 *)

\* job -> execute_replies -> respond_to_mentions -> get_mentions, lines 267-278
StartRun ==
    /\ pc = "idle"
    /\ pc' = "fetch"
    /\ since_id' = SinceId(cursor)
    /\ pagination_token' = ""
    /\ mentions' = <<>>
    /\ served' = {}
    /\ idx' = 0
    /\ hist' = HistRun @@ [ran_once   |-> TRUE,
                           new_since  |-> FALSE,
                           second     |-> hist.ran_once /\ ~hist.new_since,
                           unresolved |-> hist.unresolved,
                           before     |-> hist.before \cup hist.examined]
    /\ UNCHANGED <<world, stats, locals, faults>>

\* The token of the page after the one asked with tok.
NextToken(tok) == IF tok = "t1" THEN "t2" ELSE "t1"

\* One turn of the while loop, lines 280-296: a page is received.  Its
\* next_token is the source's: it is present while mentions remain, and the
\* source may send one when nothing remains.
FetchPage ==
    /\ pc = "fetch"
    /\ \E page \in Pages(Pending), next_token \in BOOLEAN :
          /\ Pending \ Range(page) # {} => next_token
          /\ mentions' = mentions \o page
          /\ served' = served \cup Range(page)
          /\ pagination_token' = IF next_token THEN NextToken(pagination_token) ELSE ""
          /\ pc' = IF next_token THEN "fetch" ELSE "fetched"
    /\ UNCHANGED <<world, stats, since_id, idx, locals, faults, hist>>

\* One turn of the while loop in which get_users_mentions raises.
FetchError ==
    /\ pc = "fetch"
    /\ CanFail
    /\ faults' = faults + 1
    /\ \/ \* lines 298-300: a tweepy.TweepError is caught, the loop is left with
          \* the pages received so far
          /\ pc' = "fetched"
          /\ hist' = [hist EXCEPT !.fetch_failed = TRUE]
       \/ \* any other exception leaves get_mentions
          /\ pc' = "crashed"
          /\ hist' = [hist EXCEPT !.fetch_failed = TRUE, !.crash_stage = "fetch"]
    /\ pagination_token' = ""
    /\ UNCHANGED <<world, served, stats, since_id, mentions, idx, locals>>

-----------------------------------------------------------------------------
(* respond_to_mentions, lines 312-340 *)

\* The mention of the current loop iteration.
Mention == Batch(mentions)[idx]

\* line 325: the for loop takes its next mention, or ends (line 339).
LoopTo(ms, i, h) ==
    /\ idx' = i
    /\ pc' = IF i <= Len(Batch(ms)) THEN "resolve" ELSE "report"
    /\ hist' = [h EXCEPT !.examined = IF i <= Len(Batch(ms)) THEN @ \cup {Batch(ms)[i]} ELSE @,
                            !.already = FALSE,
                            !.chat_failed = FALSE,
                            !.attempted = FALSE,
                            !.raised = ""]

\* The lower bound of the fetch stored as the cursor when nothing was fetched.
AfterFetch_cursor ==
    /\ pc = "fetched"
    /\ IF Len(mentions) = 0
       THEN /\ pc' = "report"
            /\ cursor' = ToStr(since_id)
            /\ UNCHANGED <<mentions_found, mentions, idx, hist>>
       ELSE /\ mentions_found' = Len(mentions)
            /\ mentions' = SortById(mentions)
            /\ LoopTo(SortById(mentions), 1, [hist EXCEPT !.unsorted = ~IsSorted(mentions)])
            /\ UNCHANGED cursor
    /\ UNCHANGED <<source, ledger, tweets, uploads, served, mentions_replied,
                   mentions_replied_errors, since_id, pagination_token, locals, faults>>

\* lines 315-323
AfterFetch ==
    /\ pc = "fetched"
    /\ IF Len(mentions) = 0
       THEN /\ pc' = "report"
            /\ UNCHANGED <<mentions_found, mentions, idx, hist>>
       ELSE /\ mentions_found' = Len(mentions)
            /\ mentions' = SortById(mentions)
            /\ LoopTo(SortById(mentions), 1, [hist EXCEPT !.unsorted = ~IsSorted(mentions)])
    /\ UNCHANGED <<world, served, mentions_replied, mentions_replied_errors,
                   since_id, pagination_token, locals, faults>>

\* An exception leaves respond_to_mentions; nothing up to schedule.run_pending
\* (line 428) catches it.
Crash(stage) ==
    /\ pc' = "crashed"
    /\ hist' = [hist EXCEPT !.crash_stage = stage,
                            !.raised = stage,
                            !.unresolved = IF stage = "resolve" THEN @ \cup {Batch(mentions)[idx]} ELSE @]

\* line 326, get_mention_conversation_tweet (lines 247-264), and the read of
\* mentioned_conversation_tweet.id on line 328.
Resolve ==
    /\ pc = "resolve"
    /\ LET conv == ConversationId(Mention)
           fetched == conv # Mention /\ conv # 0
           t == get_mention_conversation_tweet(Mention, GetTweetData(conv))
       IN  \/ /\ fetched => GetTweetData(conv) # ""
              /\ t # 0
              /\ target' = t
              /\ pc' = "check"
              /\ UNCHANGED <<faults, hist>>
           \/ \* line 259: get_tweet(...).data is None; line 328: the resolver returned None
              /\ (fetched /\ GetTweetData(conv) = "") \/ t = 0
              /\ Crash("resolve")
              /\ UNCHANGED <<target, faults>>
           \/ \* line 252: get_tweet raises
              /\ fetched
              /\ CanFail
              /\ faults' = faults + 1
              /\ Crash("resolve")
              /\ UNCHANGED target
    /\ UNCHANGED <<world, served, stats, since_id, pagination_token, mentions, idx,
                   response_text, image_url, summary, tweet_text, media_id>>

\* line 328, check_already_responded (lines 305-310)
Check ==
    /\ pc = "check"
    /\ \/ /\ pc' = IF check_already_responded(ledger, target) THEN "setcursor" ELSE "generate"
          /\ hist' = [hist EXCEPT !.already = Recorded(target)]
          /\ UNCHANGED faults
       \/ \* line 306: airtable.get_all raises
          /\ CanFail
          /\ faults' = faults + 1
          /\ Crash("check")
    /\ UNCHANGED <<world, served, stats, since_id, pagination_token, mentions, idx, locals>>

-----------------------------------------------------------------------------
(* respond_to_mention, lines 174-242 *)

ChatReply == "## Facts\nThe claim is **partly** right."
ImageUrl == "https://hcti.io/v1/image/abc"
ShortSummary == "The claim is partly right."

\* A text of n characters.
Alphabet == "abcdefghijklmnopqrstuvwxyz"
CharAt(i) == SubSeq(Alphabet, ((i - 1) % Len(Alphabet)) + 1, ((i - 1) % Len(Alphabet)) + 1)

\* The characters lo..hi of the text.
RECURSIVE TextFromTo(_, _)
TextFromTo(lo, hi) ==
    IF lo > hi THEN ""
    ELSE IF lo = hi THEN CharAt(lo)
    ELSE TextFromTo(lo, (lo + hi) \div 2) \o TextFromTo(((lo + hi) \div 2) + 1, hi)

TextOfLen(n) == TextFromTo(1, n)

\* A summary that does not fit a tweet once the suffix is appended.
LongSummary == TextOfLen(TwitterLimit)

\* The exception is caught and not counted.
Except_uncounted(stage) ==
    /\ mentions_replied_errors' = mentions_replied_errors
    /\ pc' = "setcursor"
    /\ hist' = [hist EXCEPT !.raised = stage,
                            !.attempted = @ \/ stage \in {"upload", "create"}]

\* lines 239-242: the except clause of respond_to_mention; the caller goes on
\* to line 337.
Except(stage) ==
    /\ mentions_replied_errors' = mentions_replied_errors + 1
    /\ pc' = "setcursor"
    /\ hist' = [hist EXCEPT !.raised = stage,
                            !.attempted = @ \/ stage \in {"upload", "create"}]

\* On failure nothing is returned, as summarize_with_claude does.
get_chatbot_response_none(failed) == IF failed THEN "" ELSE ChatReply

\* get_chatbot_response, lines 70-78: the text of the answer, or the apology
\* when requests.post or raise_for_status raised a RequestException
get_chatbot_response(failed) == IF failed THEN Apology ELSE ChatReply

\* lines 176-181: generate_response (163-172) calls get_chatbot_response
Generate ==
    /\ pc = "generate"
    /\ \/ /\ response_text' = get_chatbot_response(FALSE)
          /\ pc' = "render"
          /\ UNCHANGED <<faults, hist, mentions_replied_errors>>
       \/ \* lines 76-78
          /\ CanFail
          /\ faults' = faults + 1
          /\ response_text' = get_chatbot_response(TRUE)
          /\ pc' = "render"
          /\ hist' = [hist EXCEPT !.chat_failed = TRUE]
          /\ UNCHANGED mentions_replied_errors
       \/ \* line 74: the answer has no 'text' (KeyError, not a RequestException)
          /\ CanFail
          /\ faults' = faults + 1
          /\ Except("chat")
          /\ UNCHANGED response_text
    /\ UNCHANGED <<world, served, mentions_found, mentions_replied, since_id, pagination_token,
                   mentions, idx, target, image_url, summary, tweet_text, media_id>>

\* line 183: generate_image_from_response (347-416)
Render ==
    /\ pc = "render"
    /\ \/ /\ image_url' = ImageUrl
          /\ UNCHANGED faults
       \/ \* lines 414-416
          /\ CanFail
          /\ faults' = faults + 1
          /\ image_url' = ""
    /\ pc' = "summarize"
    /\ UNCHANGED <<world, served, stats, since_id, pagination_token, mentions, idx, target,
                   response_text, summary, tweet_text, media_id, hist>>

\* lines 186-193: summarize_with_claude (96-120) and the visible text
Summarize ==
    /\ pc = "summarize"
    /\ \/ /\ summary' = ShortSummary
          /\ tweet_text' = ComposeTweetText(ShortSummary)
          /\ pc' = IF image_url # "" THEN "upload" ELSE "create"
          /\ UNCHANGED <<faults, hist, mentions_replied_errors>>
       \/ \* a long completion; an empty completion or, lines 116-120 after
          \* raise_for_status raised, None
          /\ CanFail
          /\ faults' = faults + 1
          /\ \E s \in {LongSummary, ""} :
                /\ summary' = s
                /\ tweet_text' = ComposeTweetText(s)
          /\ pc' = IF image_url # "" THEN "upload" ELSE "create"
          /\ UNCHANGED <<hist, mentions_replied_errors>>
       \/ \* line 112 raised: line 118 reads the unbound local response
          /\ CanFail
          /\ faults' = faults + 1
          /\ Except("summarize")
          /\ UNCHANGED <<summary, tweet_text>>
    /\ UNCHANGED <<world, served, mentions_found, mentions_replied, since_id, pagination_token,
                   mentions, idx, target, response_text, image_url, media_id>>

\* lines 196-212: the image is downloaded and uploaded as media
Upload ==
    /\ pc = "upload"
    /\ \/ /\ uploads' = uploads + 1
          /\ media_id' = uploads + 1
          /\ pc' = "create"
          /\ hist' = [hist EXCEPT !.attempted = TRUE]
          /\ UNCHANGED <<faults, mentions_replied_errors>>
       \/ \* line 204 or 208-209 raised
          /\ CanFail
          /\ faults' = faults + 1
          /\ Except("upload")
          /\ UNCHANGED <<uploads, media_id>>
    /\ UNCHANGED <<source, cursor, ledger, tweets, served, mentions_found,
                   mentions_replied, since_id, pagination_token, mentions, idx, target,
                   response_text, image_url, summary, tweet_text>>

\* The failure of create_tweet is swallowed and the record is inserted anyway.
Create_swallowed ==
    /\ pc = "create"
    /\ \/ /\ tweets' = Append(tweets, [text |-> tweet_text,
                                       media_ids |-> IF media_id # 0 THEN <<media_id>> ELSE <<>>,
                                       in_reply_to_tweet_id |-> Mention])
          /\ hist' = [hist EXCEPT !.attempted = TRUE]
          /\ UNCHANGED faults
       \/ /\ CanFail
          /\ faults' = faults + 1
          /\ hist' = [hist EXCEPT !.attempted = TRUE]
          /\ UNCHANGED tweets
    /\ pc' = "insert"
    /\ UNCHANGED <<source, cursor, ledger, uploads, served, stats, since_id, pagination_token,
                   mentions, idx, locals>>

\* lines 215-227: create_tweet
Create ==
    /\ pc = "create"
    /\ \/ /\ tweets' = Append(tweets, [text |-> tweet_text,
                                       media_ids |-> IF media_id # 0 THEN <<media_id>> ELSE <<>>,
                                       in_reply_to_tweet_id |-> Mention])
          /\ pc' = "insert"
          /\ hist' = [hist EXCEPT !.attempted = TRUE]
          /\ UNCHANGED <<faults, mentions_replied_errors>>
       \/ /\ CanFail
          /\ faults' = faults + 1
          /\ Except("create")
          /\ UNCHANGED tweets
    /\ UNCHANGED <<source, cursor, ledger, uploads, served, mentions_found,
                   mentions_replied, since_id, pagination_token, mentions, idx, locals>>

\* lines 229-237, and lines 330-332 of the caller
Insert ==
    /\ pc = "insert"
    /\ \/ /\ ledger' = Append(ledger,
                 [mentioned_conversation_tweet_id |-> ToStr(target),
                  tweet_response_id |-> ToStr(ReplyId(Len(tweets))),
                  tweet_response_text |-> response_text])
          /\ mentions_replied' = mentions_replied + 1
          /\ pc' = "setcursor"
          /\ UNCHANGED <<faults, hist, mentions_replied_errors>>
       \/ \* airtable.insert raised
          /\ CanFail
          /\ faults' = faults + 1
          /\ Except("insert")
          /\ UNCHANGED <<ledger, mentions_replied>>
    /\ UNCHANGED <<source, cursor, tweets, uploads, served, mentions_found,
                   since_id, pagination_token, mentions, idx, locals>>

\* line 337, then the next turn of the for loop
SetCursor ==
    /\ pc = "setcursor"
    /\ cursor' = ToStr(Mention)
    /\ LoopTo(mentions, idx + 1, hist)
    /\ target' = 0
    /\ response_text' = ""
    /\ image_url' = ""
    /\ summary' = ""
    /\ tweet_text' = ""
    /\ media_id' = 0
    /\ UNCHANGED <<source, ledger, tweets, uploads, served, stats, since_id, pagination_token,
                   mentions, faults>>

\* lines 339-340 (or 316-317) and 345: the statistics are printed, job returns
Report ==
    /\ pc = "report"
    /\ pc' = "idle"
    /\ mentions' = <<>>
    /\ idx' = 0
    /\ served' = {}
    /\ UNCHANGED <<world, stats, since_id, pagination_token, locals, faults, hist>>

\* After an uncaught exception the process ends; its supervisor starts a new
\* one: lines 419, 141-161.
Restart ==
    /\ pc = "crashed"
    /\ pc' = "idle"
    /\ mentions_found' = 0
    /\ mentions_replied' = 0
    /\ mentions_replied_errors' = 0
    /\ mentions' = <<>>
    /\ idx' = 0
    /\ served' = {}
    /\ target' = 0
    /\ response_text' = ""
    /\ image_url' = ""
    /\ summary' = ""
    /\ tweet_text' = ""
    /\ media_id' = 0
    /\ UNCHANGED <<world, since_id, pagination_token, faults, hist>>

Next ==
    \/ Arrive
    \/ StartRun
    \/ FetchPage
    \/ FetchError
    \/ AfterFetch
    \/ Resolve
    \/ Check
    \/ Generate
    \/ Render
    \/ Summarize
    \/ Upload
    \/ Create
    \/ Insert
    \/ SetCursor
    \/ Report
    \/ Restart

Spec == Init /\ [][Next]_vars

-----------------------------------------------------------------------------
(* The visible text alone: lines 187-192 applied to summaries of every     *)
(* length up to MaxSummaryLen.                                             *)

InitText ==
    /\ source = {}
    /\ cursor = ""
    /\ ledger = <<>>
    /\ tweets = <<>>
    /\ uploads = 0
    /\ served = {}
    /\ mentions_found = 0
    /\ mentions_replied = 0
    /\ mentions_replied_errors = 0
    /\ pc = "compose"
    /\ since_id = 0
    /\ pagination_token = ""
    /\ mentions = <<>>
    /\ idx = 0
    /\ target = 0
    /\ response_text = ChatReply
    /\ image_url = ""
    /\ \E n \in 0..MaxSummaryLen : summary = TextOfLen(n)
    /\ tweet_text = ""
    /\ media_id = 0
    /\ faults = 0
    /\ hist = [HistRun EXCEPT !.start = [cursor |-> "", tweets |-> 0, ledger |-> 0, uploads |-> 0]]
             @@ HistAll

\* lines 187-193
ComposeText ==
    /\ pc = "compose"
    /\ tweet_text' = ComposeTweetText(summary)
    /\ pc' = "composed"
    /\ UNCHANGED <<world, served, stats, since_id, pagination_token, mentions, idx, target,
                   response_text, image_url, summary, media_id, faults, hist>>

NextText == ComposeText

SpecText == InitText /\ [][NextText]_vars

-----------------------------------------------------------------------------
(* Properties *)

\* C1: a mention whose resolved target is in the dedup ledger when the mention
\* is examined never enters respond_to_mention: no media upload and no
\* create_tweet is called for it.
C1_NoPublishWhenRecorded ==
    hist.already => (~Responding /\ ~hist.attempted /\ pc = "setcursor")

\* A mention was examined whose target was already recorded, and it was skipped.
C1_Witness ==
    /\ hist.already
    /\ pc = "setcursor"
    /\ \A i \in 1..Len(tweets) : tweets[i].in_reply_to_tweet_id # Mention

\* C2: no two ledger records share a target post id.
C2_UniqueTargets ==
    \A i, j \in 1..Len(ledger) :
        i # j => ledger[i].mentioned_conversation_tweet_id # ledger[j].mentioned_conversation_tweet_id

\* Two mentions of one batch resolved to the same conversation root; the ledger
\* holds several records.
C2_Witness ==
    /\ Len(ledger) >= 2
    /\ {5, 9} \subseteq hist.examined
    /\ hist.already

\* C3: every step leaves the cursor at least as large as it was.
C3_CursorMonotonic == [][CursorInt' >= CursorInt]_vars

\* In a run that began with a cursor and whose fetch was out of id order, the
\* cursor has been written twice.
C3_Witness ==
    /\ hist.unsorted
    /\ hist.start.cursor # ""
    /\ pc = "resolve"
    /\ idx >= 3
    /\ CursorInt > ToInt(hist.start.cursor)

\* The steps of one mention that the specification names RESOLVE, GENERATE and
\* PUBLISH.
MentionStages == {"resolve", "chat", "summarize", "upload", "create"}

\* C4: an exception raised while resolving, generating or publishing for one
\* mention does not abort the run: the run goes on to the cursor write of that
\* mention and to the next mention.
C4_FailuresIsolated ==
    hist.raised \in MentionStages => pc = "setcursor"

\* C5: a mention for which the resolver gave no target is not examined again
\* by a later run.
C5_UnresolvableNotReexamined ==
    pc = "resolve" => Mention \notin hist.unresolved

\* No mention of the source lies beyond the cursor the run started with.
NothingPending ==
    \A m \in source : m <= (IF hist.start.cursor = "" THEN 0 ELSE ToInt(hist.start.cursor))

\* C6 as stated: a run started after another run, with no mention added in
\* between, publishes nothing and leaves the ledger unchanged.
C6_SecondRunIdle ==
    hist.second =>
        /\ Len(tweets) = hist.start.tweets
        /\ uploads = hist.start.uploads
        /\ Len(ledger) = hist.start.ledger

\* C6 amended: the same, for a second run that starts with the cursor at or
\* beyond every mention of the source.
C6_SecondRunIdleAtCursor ==
    (hist.second /\ NothingPending) =>
        /\ Len(tweets) = hist.start.tweets
        /\ uploads = hist.start.uploads
        /\ Len(ledger) = hist.start.ledger

\* A second run ended, after a first run that replied and left nothing behind.
C6_Witness ==
    /\ hist.second
    /\ NothingPending
    /\ pc = "report"
    /\ source # {}
    /\ Len(ledger) > 0

\* C7: a run that fetched more than tweet_response_limit mentions has, at its
\* end, examined exactly the tweet_response_limit smallest ids, and the cursor
\* is the largest of these, not the largest fetched id.
C7_BatchCap ==
    (pc = "report" /\ Len(mentions) > tweet_response_limit) =>
        /\ Cardinality(hist.examined) = tweet_response_limit
        /\ hist.examined \subseteq Range(mentions)
        /\ \A m \in hist.examined : \A o \in Range(mentions) \ hist.examined : m < o
        /\ CursorInt = SetMax(hist.examined)
        /\ CursorInt < SetMax(Range(mentions))

\* A run over a backlog larger than the cap has ended.
C7_Witness ==
    /\ pc = "report"
    /\ Len(mentions) > tweet_response_limit
    /\ Cardinality(hist.examined) = tweet_response_limit
    /\ Len(ledger) = tweet_response_limit

\* C8: a run in which a page of the fetch failed ends with no mention
\* processed, nothing published or recorded, and the cursor as it was.
C8_FetchFailureAborts ==
    (hist.fetch_failed /\ pc = "report") =>
        /\ hist.examined = {}
        /\ cursor = hist.start.cursor
        /\ Len(tweets) = hist.start.tweets
        /\ uploads = hist.start.uploads
        /\ Len(ledger) = hist.start.ledger

\* C9: after a failed chat call the reply body is the apology, no exception is
\* raised by the generation, and the mention goes on through the pipeline: it
\* reaches the end of its iteration only after publish was called, unless a
\* later step of its own raised first.
C9_DegradedGeneration ==
    hist.chat_failed =>
        /\ Responding \/ pc = "setcursor"
        /\ response_text = Apology
        /\ Len(response_text) > 0
        /\ hist.raised # "chat"
        /\ pc = "setcursor" => (hist.attempted \/ hist.raised = "summarize")
        /\ (pc = "setcursor" /\ hist.raised = "") =>
               ledger[Len(ledger)].tweet_response_text = Apology

\* The chat call failed and the reply was published and recorded with the
\* apology as its body.
C9_Witness ==
    /\ hist.chat_failed
    /\ pc = "setcursor"
    /\ hist.raised = ""
    /\ Len(tweets) > hist.start.tweets
    /\ tweets[Len(tweets)].in_reply_to_tweet_id = Mention
    /\ ledger[Len(ledger)].tweet_response_text = Apology

\* The visible text before truncation.
Visible == IF summary # "" THEN summary \o Suffix ELSE SuffixAlone

\* C10 as stated: a visible text longer than the limit is cut to limit - 3
\* characters plus the ellipsis, 280 characters in all; a shorter one is kept.
C10_TruncateToLimit ==
    pc = "composed" =>
        IF Len(Visible) > TwitterLimit
        THEN /\ tweet_text = SubSeq(Visible, 1, TwitterLimit - 3) \o Ellipsis
             /\ Len(tweet_text) = TwitterLimit
        ELSE tweet_text = Visible

\* C10 amended: the cut is at 265 characters, 268 in all.
C10_TruncateTo265 ==
    pc = "composed" =>
        IF Len(Visible) > TwitterLimit
        THEN /\ tweet_text = SubSeq(Visible, 1, TruncateAt) \o Ellipsis
             /\ Len(tweet_text) = TruncateAt + 3
             /\ Len(tweet_text) <= TwitterLimit
        ELSE tweet_text = Visible

\* A visible text of 300 characters was composed.
C10_Witness ==
    /\ pc = "composed"
    /\ Len(Visible) = 300
    /\ Len(tweet_text) = 268
    /\ SubSeq(tweet_text, 266, 268) = "..."

\* The run is inside an iteration of the for loop of respond_to_mentions.
InLoop == pc \in {"resolve", "check", "setcursor"} \/ Responding

\* The replies created since the run began.
RunTweets == {i \in 1..Len(tweets) : i > hist.start.tweets}

\* C11: the mentions of a run are examined one at a time in ascending id
\* order, whatever order they were fetched in: the mention in hand is larger
\* than every mention examined before it in the run, the examined mentions are
\* the first idx ones of the sorted batch, and when an iteration begins the
\* work of the previous one is over (the cursor holds the previous id, every
\* reply of the run answers an earlier mention and no local of the previous
\* iteration is left).
C11_AscendingOneAtATime ==
    InLoop =>
        /\ hist.examined = {Batch(mentions)[i] : i \in 1..idx}
        /\ Cardinality(hist.examined) = idx
        /\ Mention = SetMax(hist.examined)
        /\ idx > 1 => cursor = ToStr(Batch(mentions)[idx - 1])
        /\ \A i \in RunTweets :
              /\ tweets[i].in_reply_to_tweet_id <= Mention
              /\ tweets[i].in_reply_to_tweet_id = Mention => (i = Len(tweets) /\ pc \in {"insert", "setcursor"})
        /\ pc = "resolve" => NoLocals

\* The source returned 5 before 3 and then 9; the run is at its third mention,
\* 9, after it replied to 3 and to 5.
C11_Witness ==
    /\ hist.unsorted
    /\ Batch(mentions) = <<3, 5, 9>>
    /\ idx = 3
    /\ pc = "check"
    /\ cursor = "5"
    /\ \E i, j \in RunTweets :
          /\ i < j
          /\ tweets[i].in_reply_to_tweet_id = 3
          /\ tweets[j].in_reply_to_tweet_id = 5

\* C12: once the resolver has answered, the target is the mention itself when
\* the mention is the root of its conversation or when the root was written by
\* the bot's own account, and the root when another account wrote it.
C12_SelfReplyAvoidance ==
    (InLoop /\ pc # "resolve" /\ target # 0) =>
        LET root == ConversationId(Mention)
        IN  /\ root = Mention => target = Mention
            /\ (root # Mention /\ root # 0 /\ GetTweetData(root) = twitter_me_id) => target = Mention
            /\ (root # Mention /\ root # 0 /\ GetTweetData(root) = "other") => target = root
            /\ target \in {Mention, root}

\* Mention 10 answers a conversation the bot began and is its own target,
\* after mention 3 (its own root) and mention 5 (root 2, by another account)
\* were answered with targets 3 and 2.
C12_Witness ==
    /\ pc = "check"
    /\ Mention = 10
    /\ GetTweetData(ConversationId(10)) = twitter_me_id
    /\ target = 10
    /\ Recorded(3)
    /\ Recorded(2)
    /\ ~Recorded(5)

\* C13: a run whose fetch returned no mention examines none and writes
\* nothing: when it reports, no media was uploaded, no reply created, no
\* record inserted, and the cursor is the one the run began with.
C13_EmptyFetchWritesNothing ==
    (pc = "report" /\ Len(mentions) = 0) =>
        /\ hist.examined = {}
        /\ uploads = hist.start.uploads
        /\ Len(tweets) = hist.start.tweets
        /\ Len(ledger) = hist.start.ledger
        /\ cursor = hist.start.cursor

\* A run that began with a cursor and a ledger left by earlier runs fetched
\* nothing and reports.
C13_Witness ==
    /\ pc = "report"
    /\ Len(mentions) = 0
    /\ ~hist.fetch_failed
    /\ hist.start.cursor # ""
    /\ cursor = hist.start.cursor
    /\ Len(ledger) > 0
    /\ Len(tweets) = hist.start.tweets

\* The ledger holds the record of the k-th reply the bot created.
ReplyRecorded(k) ==
    \E i \in 1..Len(ledger) : ledger[i].tweet_response_id = ToStr(ReplyId(k))

\* C14: a failure of the ledger aborts the run before the cursor is written,
\* so the cursor never reaches a mention whose reply was published but is not
\* in the ledger.
C14_LedgerFailureAborts ==
    \A k \in 1..Len(tweets) :
        tweets[k].in_reply_to_tweet_id <= CursorInt => ReplyRecorded(k)

\* The summarization of the mention in hand gave no summary: it returned None
\* or nothing, or it raised.
SummaryFailed ==
    \/ hist.raised = "summarize"
    \/ pc \in {"upload", "create", "insert"} /\ summary = ""

\* C15: a failed summarization is not escalated: no exception reaches
\* respond_to_mention's handler, the visible text is the suffix alone and the
\* mention goes on to its publish.
C15_SummaryFailureFallsBack ==
    SummaryFailed =>
        /\ hist.raised # "summarize"
        /\ tweet_text = SuffixAlone
        /\ pc \in {"upload", "create", "insert"}

\* The replies that answer mention m.
RepliesTo(m) == {k \in 1..Len(tweets) : tweets[k].in_reply_to_tweet_id = m}

\* After create_tweet failed for the mention in hand: nothing answers the
\* mention, nothing records it.  After create_tweet succeeded for a mention
\* without image: one reply, with no media.
C16_PublishState ==
    /\ (pc = "setcursor" /\ hist.raised = "create") =>
            /\ RepliesTo(Mention) = {}
            /\ ~ReplyRecorded(Len(tweets) + 1)
            /\ image_url # "" => media_id # 0
    /\ (pc = "insert" /\ image_url = "") =>
            /\ RepliesTo(Mention) = {Len(tweets)}
            /\ tweets[Len(tweets)].media_ids = <<>>
            /\ tweets[Len(tweets)].text = tweet_text

\* The step in which create_tweet fails counts one error, creates and
\* records nothing and leads to the cursor write; the step after it takes the
\* next mention (or ends the loop) without another create_tweet.  The step
\* in which create_tweet succeeds creates exactly one reply.
C16_PublishStep ==
    /\ (pc = "create" /\ hist'.raised = "create") =>
            /\ mentions_replied_errors' = mentions_replied_errors + 1
            /\ mentions_replied' = mentions_replied
            /\ tweets' = tweets
            /\ ledger' = ledger
            /\ pc' = "setcursor"
    /\ (pc = "setcursor" /\ hist.raised = "create") =>
            /\ tweets' = tweets
            /\ ledger' = ledger
            /\ idx' = idx + 1
            /\ pc' \in {"resolve", "report"}
    /\ (pc = "create" /\ pc' = "insert") => Len(tweets') = Len(tweets) + 1

\* C16: when the upload succeeded and create_tweet fails, no text-only reply
\* is attempted: the publish fails as a whole, one error is counted, no ledger
\* record is inserted and the run goes on with the next mention; a reply
\* without image is published by a single create_tweet, without media.
C16_NoTextOnlyRetry == []C16_PublishState /\ [][C16_PublishStep]_vars

\* The image was uploaded, create_tweet failed, the error was counted and no
\* reply answers the mention.
C16_Witness ==
    /\ pc = "setcursor"
    /\ hist.raised = "create"
    /\ media_id # 0
    /\ uploads > hist.start.uploads
    /\ mentions_replied_errors = 1
    /\ RepliesTo(Mention) = {}

\* C17: a ledger record is inserted only after create_tweet succeeded for the
\* mention, and the cursor is written to the mention's id only after that:
\* every record names a reply that exists and that answers a mention whose
\* target the record holds, no two records name the same reply, there are no
\* more records than replies, and while the reply of the mention in hand is
\* being created or recorded the cursor is still below the mention.
C17_RecordAfterPublish ==
    /\ \A i \in 1..Len(ledger) :
          \E k \in 1..Len(tweets) :
              /\ ledger[i].tweet_response_id = ToStr(ReplyId(k))
              /\ \A j \in 1..Len(ledger) : ledger[j].tweet_response_id = ToStr(ReplyId(k)) => j = i
    /\ Len(ledger) <= Len(tweets)
    /\ pc \in {"create", "insert"} => CursorInt < Mention
    /\ pc = "create" => (RepliesTo(Mention) = {} /\ ~Recorded(target))
    /\ pc = "insert" => (RepliesTo(Mention) = {Len(tweets)} /\ ~ReplyRecorded(Len(tweets)))
    /\ (pc = "setcursor" /\ ~hist.already /\ hist.raised = "") =>
            /\ RepliesTo(Mention) = {Len(tweets)}
            /\ ledger[Len(ledger)].tweet_response_id = ToStr(ReplyId(Len(tweets)))
            /\ ledger[Len(ledger)].mentioned_conversation_tweet_id = ToStr(target)
            /\ CursorInt < Mention

\* A reply was created and recorded and the cursor is about to be written,
\* after an earlier reply whose record could not be inserted.
C17_Witness ==
    /\ pc = "setcursor"
    /\ ~hist.already
    /\ hist.raised = ""
    /\ Len(ledger) >= 1
    /\ Len(ledger) < Len(tweets)
    /\ ledger[Len(ledger)].tweet_response_id = ToStr(ReplyId(Len(tweets)))
    /\ CursorInt < Mention

\* C18: the statistics a run reports are those of the run: replied plus
\* errors is at most the number of mentions the run examined, found is the
\* number it fetched, 0 when it fetched none.
C18_StatsOfThisRun ==
    pc = "report" =>
        /\ mentions_replied + mentions_replied_errors <= Cardinality(hist.examined)
        /\ mentions_found = Len(mentions)


\* No external call has failed so far: no fault was drawn (the behaviours
\* that begin with a backlog have none to draw) and the resolver answered for
\* every mention.
NoFailure ==
    /\ hist.unresolved = {}
    /\ source \subseteq SmallMentions => faults = 0

\* C20: the cap loses no mention.  When a run ends its loop every fetched
\* mention it left out is beyond the cursor; a completed fetch returns every
\* mention beyond the cursor; and while no call fails no mention is examined
\* twice, the mentions up to the cursor are exactly the examined ones, and a
\* run that fetched no more than the cap leaves no mention unexamined.
C20_CapLosesNothing ==
    /\ pc = "report" => \A m \in Range(mentions) \ hist.examined : m > CursorInt
    /\ (pc = "fetched" /\ ~hist.fetch_failed) =>
            Range(mentions) = {m \in source : m > CursorInt}
    /\ NoFailure => hist.examined \cap hist.before = {}
    /\ (NoFailure /\ pc = "report") =>
            /\ hist.before \cup hist.examined = {m \in source : m <= CursorInt}
            /\ Len(mentions) <= tweet_response_limit => source \subseteq hist.before \cup hist.examined

\* Of a backlog larger than the cap, a first run examined the cap's worth and
\* the next run examined the rest; every mention was answered once.
C20_Witness ==
    /\ pc = "report"
    /\ Cardinality(source) > tweet_response_limit
    /\ Cardinality(hist.before) = tweet_response_limit
    /\ hist.examined = source \ hist.before
    /\ hist.examined # {}
    /\ \A m \in source : Cardinality(RepliesTo(m)) = 1

-----------------------------------------------------------------------------
(* get_mentions alone, lines 266-303, for every small source and every     *)
(* cursor an earlier run can have left, the bot's process being scheduled  *)
(* fairly: a step that stays possible is eventually taken.                 *)

InitFetch ==
    /\ source \in SUBSET SmallMentions
    /\ cursor \in {""} \cup {ToStr(m) : m \in source}
    /\ ledger = <<>>
    /\ tweets = <<>>
    /\ uploads = 0
    /\ served = {}
    /\ mentions_found = 0
    /\ mentions_replied = 0
    /\ mentions_replied_errors = 0
    /\ pc = "idle"
    /\ since_id = 0
    /\ pagination_token = ""
    /\ mentions = <<>>
    /\ idx = 0
    /\ NoLocals
    /\ faults = 0
    /\ hist = [HistRun EXCEPT !.start = [cursor |-> "", tweets |-> 0, ledger |-> 0, uploads |-> 0]]
             @@ HistAll

NextFetch ==
    \/ StartRun
    \/ FetchPage
    \/ FetchError

FairFetch == InitFetch /\ [][NextFetch]_vars /\ WF_vars(NextFetch)

\* C19: the paginated fetch ends for every source: a run that is fetching
\* eventually leaves the while loop of get_mentions, also when every page
\* carries a next_token.
C19_FetchTerminates == (pc = "fetch") ~> (pc # "fetch")

=============================================================================
